---------------------------- MODULE Spec2Model ----------------------------
(***************************************************************************)
(* The fluent request builder of utils/request-handler.ts (the variant     *)
(* with an injected APILogger), its four terminal operations, and the      *)
(* logger it appends to.                                                   *)
(*                                                                         *)
(* Strings are sequences of tokens: a token is a separator ("https://",    *)
(* "/", "?", "=", "&") or an atom standing for a run of ordinary           *)
(* characters, so concatenation is \o and two adjacent atoms read as one   *)
(* run ("api" followed by "articles" is the segment "apiarticles").        *)
(* A JavaScript object is a sequence of <<key, value>> pairs in insertion  *)
(* order (the order Object.entries yields) with distinct keys.             *)
(***************************************************************************)
EXTENDS Integers, Sequences, FiniteSets, TLC

VARIABLES
    baseUrl,      \* RequestHandler.baseUrl: the override set by url()
    apiPath,      \* RequestHandler.apiPath
    queryParams,  \* RequestHandler.queryParams
    apiHeaders,   \* RequestHandler.apiHeaders
    apiBody,      \* RequestHandler.apiBody
    logs,         \* the entries of the injected APILogger
    owner,        \* per entry of logs: the operation whose code appended it
    calls,        \* the terminal operations invoked so far, in call order
    wire,         \* the HTTP calls issued on the injected request context
    args,         \* per setter: the argument of its most recent call (last)
                  \* and of the call before that (prev)
    nSet,         \* number of setter calls made so far
    ret,          \* what the most recent setter call returned: the number
                  \* of a builder instance, 0 before any setter call
    self,         \* the number of the builder instance the variables above
                  \* are the state of
    other,        \* the state of the second builder instance
    plain         \* the state of a builder of the variant without logger
                  \* that is handed the same calls and the same answers

vars == <<baseUrl, apiPath, queryParams, apiHeaders, apiBody, logs, owner,
          calls, wire, args, nSet, ret, self, other, plain>>

fields == <<baseUrl, apiPath, queryParams, apiHeaders, apiBody>>

-----------------------------------------------------------------------------
(* Bounds *)

\* terminal operations invoked in one behaviour
MaxCalls == 2

\* setter calls made in one behaviour
MaxSetterCalls == 2

-----------------------------------------------------------------------------
(* Values *)

\* the apiBaseUrl handed to the constructor: "https://x.test/api"
defaultBaseUrl == <<"https://", "x.test", "/", "api">>

EmptyString == <<>>

\* a JavaScript object: its entries in insertion order
Obj(entries) == [type |-> "object", entries |-> entries]

EmptyObject == Obj(<<>>)

\* the value of a missing optional argument and of a function without return
Undefined == [type |-> "undefined"]

\* arguments of the setters in Spec: url("") (no override),
\* url("https://y.test"), url("y.test") (no scheme: no absolute URL),
\* path("/articles"), params({limit: 10}), header({A: "1"}),
\* header({B: "2"}), body({title: "t"})
UrlValues == {EmptyString, <<"https://", "y.test">>, <<"y.test">>}

PathValues == {<<"/", "articles">>}

ParamValues == {Obj(<< <<"limit", "10">> >>)}

HeaderValues == {Obj(<< <<"A", "1">> >>), Obj(<< <<"B", "2">> >>)}

BodyValues == {Obj(<< <<"title", "t">> >>)}

\* the fields SpecUrl starts from, as earlier setter calls left them:
\* overrides "", "https://y.test", "https://y.test/v2", "https://y.test/v2/"
\* and "y.test"
UrlInputs ==
    {EmptyString, <<"https://", "y.test">>,
     <<"https://", "y.test", "/", "v2">>,
     <<"https://", "y.test", "/", "v2", "/">>,
     <<"y.test">>}

\* paths "", "/articles", "articles", "/articles/", "/../tags", "/./tags",
\* "//tags", "/tags?tag=a"
PathInputs ==
    {EmptyString, <<"/", "articles">>, <<"articles">>,
     <<"/", "articles", "/">>, <<"/", "..", "/", "tags">>,
     <<"/", ".", "/", "tags">>, <<"/", "/", "tags">>,
     <<"/", "tags", "?", "tag", "=", "a">>}

\* params {}, {limit: 10}, {limit: 10, offset: 0}, {q: "a b"}
ParamInputs ==
    {EmptyObject, Obj(<< <<"limit", "10">> >>),
     Obj(<< <<"limit", "10">>, <<"offset", "0">> >>),
     Obj(<< <<"q", "a b">> >>)}

\* the expected status handed to a terminal operation
ExpectedValues == {200, 204}

\* what the responder may answer: a status and a body text; "" is the empty
\* body (no JSON text), the others are JSON texts
Responses ==
    {[status |-> 200, text |-> "{\"id\":1}"],
     [status |-> 200, text |-> "{\"id\":2}"],
     [status |-> 204, text |-> ""]}

-----------------------------------------------------------------------------
(* The URL class (new URL(s), url.searchParams.append, url.toString()) on    *)
(* token strings: scheme "https://", host up to the first "/" or "?", path   *)
(* up to the first "?", then the query.                                      *)

IsAtom(t) == t \notin {"https://", "/", "?", "=", "&"}

\* index of the first token of s, from i on, that is in stop; Len(s)+1 if none
RECURSIVE FirstIn(_, _, _)
FirstIn(s, i, stop) ==
    IF i > Len(s) THEN Len(s) + 1
    ELSE IF s[i] \in stop THEN i
    ELSE FirstIn(s, i + 1, stop)

\* the URL parser fails (TypeError: Invalid URL) unless the string is a
\* scheme followed by a non-empty host of ordinary characters
ValidURL(s) ==
    /\ Len(s) >= 2
    /\ s[1] = "https://"
    /\ IsAtom(s[2])
    /\ \A i \in 2..(FirstIn(s, 2, {"/", "?"}) - 1) : IsAtom(s[i])

\* the path state of the URL parser at the end of a segment buf: a ".."
\* segment removes the last segment, a "." segment is dropped, and either,
\* when it ends the path, leaves an empty last segment
CloseSegment(buf, out, last) ==
    IF buf = <<"..">>
    THEN LET o == IF out = <<>> THEN out ELSE SubSeq(out, 1, Len(out) - 1)
         IN  IF last THEN Append(o, <<>>) ELSE o
    ELSE IF buf = <<".">>
    THEN IF last THEN Append(out, <<>>) ELSE out
    ELSE Append(out, buf)

RECURSIVE PathSegments(_, _, _)
PathSegments(rest, buf, out) ==
    IF rest = <<>> THEN CloseSegment(buf, out, TRUE)
    ELSE IF Head(rest) = "/"
    THEN PathSegments(Tail(rest), <<>>, CloseSegment(buf, out, FALSE))
    ELSE PathSegments(Tail(rest), Append(buf, Head(rest)), out)

\* the query string "k=v&k2=v2" as the list of its pairs
RECURSIVE ParseQuery(_, _, _, _)
ParseQuery(rest, name, value, inValue) ==
    IF rest = <<>>
    THEN IF name = <<>> /\ ~inValue THEN <<>> ELSE << <<name, value>> >>
    ELSE IF Head(rest) = "&"
    THEN (IF name = <<>> /\ ~inValue THEN <<>> ELSE << <<name, value>> >>)
         \o ParseQuery(Tail(rest), <<>>, <<>>, FALSE)
    ELSE IF Head(rest) = "=" /\ ~inValue
    THEN ParseQuery(Tail(rest), name, value, TRUE)
    ELSE IF inValue
    THEN ParseQuery(Tail(rest), name, Append(value, Head(rest)), TRUE)
    ELSE ParseQuery(Tail(rest), Append(name, Head(rest)), value, FALSE)

\* new URL(s) for a valid s: host, path segments, and the query (hasQuery
\* tells "no query" from the empty query of a string ending in "?")
ParseURL(s) ==
    LET h == FirstIn(s, 2, {"/", "?"})
        q == FirstIn(s, h, {"?"})
        p == SubSeq(s, h, q - 1)
    IN  [host     |-> SubSeq(s, 2, h - 1),
         path     |-> IF p = <<>> THEN << <<>> >>
                      ELSE PathSegments(Tail(p), <<>>, <<>>),
         hasQuery |-> q <= Len(s),
         query    |-> SubSeq(s, q + 1, Len(s))]

\* application/x-www-form-urlencoded byte serialisation of one name or value
FormEncode(a) ==
    CASE a = "a b" -> "a+b"
      [] a = "x&y" -> "x%26y"
      [] OTHER     -> a

RECURSIVE EncodeAll(_)
EncodeAll(s) ==
    IF s = <<>> THEN <<>> ELSE <<FormEncode(Head(s))>> \o EncodeAll(Tail(s))

\* the serialisation of a list of pairs: name=value joined by "&"
RECURSIVE SerializePairs(_)
SerializePairs(l) ==
    IF l = <<>> THEN <<>>
    ELSE EncodeAll(Head(l)[1]) \o <<"=">> \o EncodeAll(Head(l)[2])
         \o (IF Len(l) > 1 THEN <<"&">> ELSE <<>>)
         \o SerializePairs(Tail(l))

\* url.searchParams.append(key, value): the list of the URL's query with the
\* pair added becomes the URL's query
SearchParamsAppend(u, key, value) ==
    LET l == ParseQuery(u.query, <<>>, <<>>, FALSE) \o << <<key, value>> >>
    IN  [u EXCEPT !.hasQuery = TRUE, !.query = SerializePairs(l)]

RECURSIVE SerializePath(_)
SerializePath(segs) ==
    IF segs = <<>> THEN <<>>
    ELSE <<"/">> \o Head(segs) \o SerializePath(Tail(segs))

\* url.toString() up to and without the query
URLBeforeQuery(u) == <<"https://">> \o u.host \o SerializePath(u.path)

\* url.toString()
URLToString(u) ==
    URLBeforeQuery(u) \o (IF u.hasQuery THEN <<"?">> \o u.query ELSE <<>>)

-----------------------------------------------------------------------------
(* RequestHandler.getUrl *)

\* `${this.baseUrl || this.defaultBaseUrl}`: the empty string is falsy
EffectiveBaseUrl_defaultFirst(override, default) ==
    IF default # EmptyString THEN default ELSE override

EffectiveBaseUrl(override, default) ==
    IF override # EmptyString THEN override ELSE default

\* `${base}${this.apiPath}`: the string handed to new URL
UrlTemplate_separator(base, path) == base \o <<"/">> \o path

UrlTemplate(base, path) == base \o path

\* for (const [key, value] of Object.entries(params)) append(key, value):
\* a value is converted to its string, here a single atom
\* a loop that stops after its first pair
AppendEntries_firstOnly(u, entries) ==
    IF entries = <<>> THEN u
    ELSE SearchParamsAppend(u, <<Head(entries)[1]>>, <<Head(entries)[2]>>)

RECURSIVE AppendEntries(_, _)
AppendEntries(u, entries) ==
    IF entries = <<>> THEN u
    ELSE AppendEntries(SearchParamsAppend(u, <<Head(entries)[1]>>,
                                             <<Head(entries)[2]>>),
                       Tail(entries))

\* whether getUrl throws (new URL on a string that is no absolute URL)
getUrlThrows(override, path) ==
    ~ValidURL(UrlTemplate(EffectiveBaseUrl(override, defaultBaseUrl), path))

getUrl(override, path, params) ==
    URLToString(AppendEntries(
        ParseURL(UrlTemplate(EffectiveBaseUrl(override, defaultBaseUrl), path)),
        params.entries))

-----------------------------------------------------------------------------
(* APILogger: logRequest, logResponse, getRecentLogs *)

\* a logger that puts a Request entry in front of the earlier entries
logRequest_prepend(l, method, url, headers, body) ==
    <<[type |-> "Request",
       data |-> [method |-> method, url |-> url, headers |-> headers,
                 body |-> body]]>> \o l

logRequest(l, method, url, headers, body) ==
    Append(l, [type |-> "Request",
               data |-> [method |-> method, url |-> url, headers |-> headers,
                         body |-> body]])

logResponse(l, status, body) ==
    Append(l, [type |-> "Response", data |-> [status |-> status, body |-> body]])

\* the serialised block of an entry: a property whose value is undefined is
\* left out
Stringify(e) ==
    IF e.type = "Request"
    THEN IF e.data.body = Undefined
         THEN [method |-> e.data.method, url |-> e.data.url,
               headers |-> e.data.headers]
         ELSE e.data
    ELSE IF e.data.body = Undefined
         THEN [status |-> e.data.status]
         ELSE e.data

RenderEntry(e) ==
    [label |-> IF e.type = "Request" THEN "===Request Details==="
               ELSE "===Response Details===",
     block |-> Stringify(e)]

\* a logger that renders its two latest entries only
getRecentLogs_lastTwo(l) ==
    [i \in 1..(IF Len(l) > 2 THEN 2 ELSE Len(l)) |->
        RenderEntry(l[i + (IF Len(l) > 2 THEN Len(l) - 2 ELSE 0)])]

getRecentLogs(l) == [i \in 1..Len(l) |-> RenderEntry(l[i])]

-----------------------------------------------------------------------------
(* The response: response.status() and response.json() *)

\* JSON.parse of the response text; the empty text is no JSON
JsonParses(text) == text # ""

ParseJson(text) ==
    CASE text = "{\"id\":1}" -> Obj(<< <<"id", "1">> >>)
      [] text = "{\"id\":2}" -> Obj(<< <<"id", "2">> >>)
      [] OTHER -> Undefined

-----------------------------------------------------------------------------
(* RequestHandler.statusCodeValidator *)

NoError == [name |-> "none"]

\* the TypeError of new URL, the error of the transport, the SyntaxError of
\* response.json()
InvalidUrlError == [name |-> "TypeError", message |-> "Invalid URL"]

TransportError == [name |-> "TransportError", message |-> "request failed"]

JsonParseError == [name |-> "SyntaxError", message |-> "Unexpected end of JSON input"]

\* `Expected status ${expected} but got ${actual}\n\nRecent API Activity: \n${logs}`
StatusErrorMessage_noLogs(expected, actual, l) ==
    [expected |-> expected, actual |-> actual, activity |-> <<>>]

StatusErrorMessage(expected, actual, l) ==
    [expected |-> expected, actual |-> actual, activity |-> getRecentLogs(l)]

\* if (actualStatus !== expectedStatus)
StatusMismatch(actual, expected) == actual # expected

\* the error statusCodeValidator throws, NoError when it returns
statusCodeValidator(actual, expected, l) ==
    IF StatusMismatch(actual, expected)
    THEN [name |-> "Error", message |-> StatusErrorMessage(expected, actual, l)]
    ELSE NoError

-----------------------------------------------------------------------------
(* Construction and the setters *)

\* the field initialisers of the class
InitialFields ==
    [url |-> EmptyString, path |-> EmptyString, params |-> EmptyObject,
     header |-> EmptyObject, body |-> EmptyObject]

\* a builder instance as its constructor leaves it, with a logger and a
\* request context of its own
InitialInstance ==
    [baseUrl |-> EmptyString, apiPath |-> EmptyString,
     queryParams |-> EmptyObject, apiHeaders |-> EmptyObject,
     apiBody |-> EmptyObject, logs |-> <<>>, owner |-> <<>>, calls |-> <<>>,
     wire |-> <<>>, args |-> [last |-> InitialFields, prev |-> InitialFields],
     nSet |-> 0]

\* a builder of the variant without logger as its constructor leaves it
InitialPlain ==
    [baseUrl |-> EmptyString, apiPath |-> EmptyString,
     queryParams |-> EmptyObject, apiHeaders |-> EmptyObject,
     apiBody |-> EmptyObject, calls |-> <<>>, wire |-> <<>>]

Init ==
    /\ baseUrl = EmptyString
    /\ apiPath = EmptyString
    /\ queryParams = EmptyObject
    /\ apiHeaders = EmptyObject
    /\ apiBody = EmptyObject
    /\ logs = <<>>
    /\ owner = <<>>
    /\ calls = <<>>
    /\ wire = <<>>
    /\ args = [last |-> InitialFields, prev |-> InitialFields]
    /\ nSet = 0
    /\ ret = 0
    /\ self = 1
    /\ other = InitialInstance
    /\ plain = InitialPlain

\* header() on a builder that merged the new mapping into the old one
RECURSIVE WithoutKey(_, _)
WithoutKey(entries, k) ==
    IF entries = <<>> THEN <<>>
    ELSE (IF Head(entries)[1] = k THEN <<>> ELSE <<Head(entries)>>)
         \o WithoutKey(Tail(entries), k)

RECURSIVE Merge(_, _)
Merge(old, new) ==
    IF new = <<>> THEN old
    ELSE Merge(Append(WithoutKey(old, Head(new)[1]), Head(new)), Tail(new))

\* a setter that returns another builder object than the one it was called on
ReturnThis_another == IF self = 1 THEN 2 ELSE 1

\* return this;
ReturnThis == self

SetterCalled(name, v) ==
    /\ nSet < MaxSetterCalls
    /\ nSet' = nSet + 1
    /\ args' = [last |-> [args.last EXCEPT ![name] = v],
                 prev |-> [args.prev EXCEPT ![name] = args.last[name]]]
    /\ ret' = ReturnThis
    /\ UNCHANGED <<logs, owner, calls, wire, self, other>>

\* a setter that keeps the override when it is handed the empty string
url_ignoresEmpty(v) ==
    /\ SetterCalled("url", v)
    /\ baseUrl' = (IF v = EmptyString THEN baseUrl ELSE v)
    /\ UNCHANGED <<apiPath, queryParams, apiHeaders, apiBody>>

url(v) ==
    /\ SetterCalled("url", v)
    /\ baseUrl' = v
    /\ UNCHANGED <<apiPath, queryParams, apiHeaders, apiBody>>

path(v) ==
    /\ SetterCalled("path", v)
    /\ apiPath' = v
    /\ UNCHANGED <<baseUrl, queryParams, apiHeaders, apiBody>>

params(v) ==
    /\ SetterCalled("params", v)
    /\ queryParams' = v
    /\ UNCHANGED <<baseUrl, apiPath, apiHeaders, apiBody>>

\* a setter that writes into the object the pending HTTP calls were handed
header_inPlace(v) ==
    /\ nSet < MaxSetterCalls
    /\ nSet' = nSet + 1
    /\ args' = [last |-> [args.last EXCEPT !.header = v],
                 prev |-> [args.prev EXCEPT !.header = args.last.header]]
    /\ apiHeaders' = v
    /\ wire' = [i \in 1..Len(wire) |->
                   IF calls[wire[i].call].pc = "awaitHttp"
                   THEN [wire[i] EXCEPT !.headers = v] ELSE wire[i]]
    /\ ret' = ReturnThis
    /\ UNCHANGED <<baseUrl, apiPath, queryParams, apiBody, logs, owner, calls,
                   self, other>>

header_merging(v) ==
    /\ SetterCalled("header", v)
    /\ apiHeaders' = Obj(Merge(apiHeaders.entries, v.entries))
    /\ UNCHANGED <<baseUrl, apiPath, queryParams, apiBody>>

header(v) ==
    /\ SetterCalled("header", v)
    /\ apiHeaders' = v
    /\ UNCHANGED <<baseUrl, apiPath, queryParams, apiBody>>

\* a body setter that also writes a content type into the headers
body_setsContentType(v) ==
    /\ SetterCalled("body", v)
    /\ apiBody' = v
    /\ apiHeaders' = Obj(Merge(apiHeaders.entries,
                               << <<"Content-Type", "application/json">> >>))
    /\ UNCHANGED <<baseUrl, apiPath, queryParams>>

body(v) ==
    /\ SetterCalled("body", v)
    /\ apiBody' = v
    /\ UNCHANGED <<baseUrl, apiPath, queryParams, apiHeaders>>

-----------------------------------------------------------------------------
(* The terminal operations.  An operation runs from its invocation to its   *)
(* first await (the HTTP call), from the answer to its second await         *)
(* (response.json()), and from there to its end; a call record keeps its    *)
(* locals.  A second operation may be invoked while one is pending.         *)

\* a call record: pc is "awaitHttp", "awaitJson", "returned" or "threw";
\* set is the last argument of each setter when the operation was invoked
\* and overlaps tells whether an earlier operation was still pending then
\* (the caller did not await it)
NewCall(method, expected, pc, u, error) ==
    [method |-> method, expected |-> expected, pc |-> pc, url |-> u,
     set |-> args.last,
     overlaps |-> \E c \in 1..Len(calls) :
                     calls[c].pc \in {"awaitHttp", "awaitJson"},
     status |-> 0, text |-> "", result |-> Undefined, error |-> error]

\* the fields after a terminal operation's first part: none is written
FieldsAfterCall_reset ==
    /\ queryParams' = EmptyObject
    /\ UNCHANGED <<baseUrl, apiPath, apiHeaders, apiBody>>

\* an override that is consumed by the operation that uses it
FieldsAfterCall_resetUrl ==
    /\ baseUrl' = EmptyString
    /\ UNCHANGED <<apiPath, queryParams, apiHeaders, apiBody>>

FieldsAfterCall == UNCHANGED <<baseUrl, apiPath, queryParams, apiHeaders, apiBody>>

\* this.request.<verb>(url, {headers, data}) of operation c
HttpCall(c, method, u, headers, data) ==
    [call |-> c, method |-> method, url |-> u, headers |-> headers,
     data |-> data]

\* the calls issued by one operation: a handler that retried would issue two
Dispatch_twice(w, h) == w \o <<h, h>>

Dispatch(w, h) == Append(w, h)

\* const url = this.getUrl(); this.logger.logRequest(...);
\* const response = await this.request.<verb>(url, {...})
Invoke(method, expected, loggedBody, data) ==
    /\ Len(calls) < MaxCalls
    /\ IF getUrlThrows(baseUrl, apiPath)
       THEN /\ calls' = Append(calls, NewCall(method, expected, "threw",
                                              EmptyString, InvalidUrlError))
            /\ UNCHANGED <<logs, owner, wire>>
       ELSE LET u == getUrl(baseUrl, apiPath, queryParams)
            IN  /\ logs' = logRequest(logs, method, u, apiHeaders, loggedBody)
                /\ owner' = Append(owner, Len(calls) + 1)
                /\ wire' = Dispatch(wire, HttpCall(Len(calls) + 1, method, u,
                                                   apiHeaders, data))
                /\ calls' = Append(calls, NewCall(method, expected, "awaitHttp",
                                                  u, NoError))
    /\ FieldsAfterCall
    /\ UNCHANGED <<args, nSet, ret, self, other>>

\* a GET that logs and sends the configured body
getRequest_withBody(stautsCode) == Invoke("GET", stautsCode, apiBody, apiBody)

getRequest(stautsCode) == Invoke("GET", stautsCode, Undefined, Undefined)

postRequest(stautsCode) == Invoke("POST", stautsCode, apiBody, apiBody)

putRequest(stautsCode) == Invoke("PUT", stautsCode, apiBody, apiBody)

deleteRequest(stautsCode) == Invoke("DELETE", stautsCode, apiBody, Undefined)

\* an operation that catches a rejection and throws an error of its own
Rethrow_wrapped(e) ==
    [name |-> "Error", message |-> [text |-> e.message,
                                    activity |-> getRecentLogs(logs)]]

\* a rejected await inside an operation without try/catch: the operation's
\* promise rejects with the error the awaited promise rejected with
Rethrow(e) == e

\* whether the operation reads response.json()
ReadsJson_always(method) == TRUE

ReadsJson(method) == method # "DELETE"

\* what a finished operation hands to its caller
ReturnValue_firstLogged(method, responseJson) ==
    IF method = "DELETE" THEN Undefined
    ELSE LET r == SelectSeq(logs, LAMBDA e : e.type = "Response")
         IN  IF r = <<>> THEN responseJson ELSE r[1].data.body

ReturnValue(method, responseJson) ==
    IF method = "DELETE" THEN Undefined ELSE responseJson

\* an operation that validates the status before it logs the response
Finish_validatesFirst(c, status, text, loggedBody) ==
    LET err == statusCodeValidator(status, calls[c].expected, logs)
    IN  IF err = NoError
        THEN /\ logs' = logResponse(logs, status, loggedBody)
             /\ owner' = Append(owner, c)
             /\ calls' = [calls EXCEPT
                     ![c].status = status,
                     ![c].text = text,
                     ![c].pc = "returned",
                     ![c].result = ReturnValue(calls[c].method, loggedBody)]
        ELSE /\ calls' = [calls EXCEPT ![c].status = status, ![c].text = text,
                                       ![c].pc = "threw", ![c].error = err]
             /\ UNCHANGED <<logs, owner>>

\* an operation that logs its response twice
Finish_logsTwice(c, status, text, loggedBody) ==
    LET l   == logResponse(logResponse(logs, status, loggedBody), status,
                           loggedBody)
        err == statusCodeValidator(status, calls[c].expected, l)
    IN  /\ logs' = l
        /\ owner' = owner \o <<c, c>>
        /\ calls' = [calls EXCEPT
                ![c].status = status,
                ![c].text = text,
                ![c].pc = IF err = NoError THEN "returned" ELSE "threw",
                ![c].error = err,
                ![c].result = IF err = NoError
                              THEN ReturnValue(calls[c].method, loggedBody)
                              ELSE Undefined]

\* this.logger.logResponse(actualStatus, body);
\* this.statusCodeValidator(actualStatus, stautsCode, ...); return ...
Finish(c, status, text, loggedBody) ==
    LET l   == logResponse(logs, status, loggedBody)
        err == statusCodeValidator(status, calls[c].expected, l)
    IN  /\ logs' = l
        /\ owner' = Append(owner, c)
        /\ calls' = [calls EXCEPT
                ![c].status = status,
                ![c].text = text,
                ![c].pc = IF err = NoError THEN "returned" ELSE "threw",
                ![c].error = err,
                ![c].result = IF err = NoError
                              THEN ReturnValue(calls[c].method, loggedBody)
                              ELSE Undefined]

\* the request context answers operation c's HTTP call
HttpRespond(c, status, text) ==
    /\ calls[c].pc = "awaitHttp"
    /\ IF ReadsJson(calls[c].method)
       THEN /\ calls' = [calls EXCEPT ![c].status = status, ![c].text = text,
                                      ![c].pc = "awaitJson"]
            /\ UNCHANGED <<logs, owner>>
       ELSE Finish(c, status, text, Undefined)
    /\ UNCHANGED <<fields, wire, args, nSet, ret, self, other>>

\* a failure that takes the latest log entry back
HttpFail_rollback(c) ==
    /\ calls[c].pc = "awaitHttp"
    /\ calls' = [calls EXCEPT ![c].pc = "threw",
                               ![c].error = Rethrow(TransportError)]
    /\ logs' = SubSeq(logs, 1, Len(logs) - 1)
    /\ owner' = SubSeq(owner, 1, Len(owner) - 1)
    /\ UNCHANGED <<fields, wire, args, nSet, ret, self, other>>

\* a failure after which the operation waits for something that never comes
HttpFail_waits(c) ==
    /\ calls[c].pc = "awaitHttp"
    /\ calls' = [calls EXCEPT ![c].pc = "waiting"]
    /\ UNCHANGED <<fields, logs, owner, wire, args, nSet, ret, self, other>>

\* the request context fails operation c's HTTP call
HttpFail(c) ==
    /\ calls[c].pc = "awaitHttp"
    /\ calls' = [calls EXCEPT ![c].pc = "threw",
                               ![c].error = Rethrow(TransportError)]
    /\ UNCHANGED <<fields, logs, owner, wire, args, nSet, ret, self, other>>

\* an operation that checks the status before it looks at the parsed body
JsonSettle_validatesFirst(c) ==
    /\ calls[c].pc = "awaitJson"
    /\ IF StatusMismatch(calls[c].status, calls[c].expected)
       THEN /\ calls' = [calls EXCEPT
                    ![c].pc = "threw",
                    ![c].error = statusCodeValidator(calls[c].status,
                                                     calls[c].expected, logs)]
            /\ UNCHANGED <<logs, owner>>
       ELSE IF JsonParses(calls[c].text)
       THEN Finish(c, calls[c].status, calls[c].text, ParseJson(calls[c].text))
       ELSE /\ calls' = [calls EXCEPT ![c].pc = "threw",
                                      ![c].error = Rethrow(JsonParseError)]
            /\ UNCHANGED <<logs, owner>>
    /\ UNCHANGED <<fields, wire, args, nSet, ret, self, other>>

\* response.json() of operation c settles
JsonSettle(c) ==
    /\ calls[c].pc = "awaitJson"
    /\ IF JsonParses(calls[c].text)
       THEN Finish(c, calls[c].status, calls[c].text, ParseJson(calls[c].text))
       ELSE /\ calls' = [calls EXCEPT ![c].pc = "threw",
                                      ![c].error = Rethrow(JsonParseError)]
            /\ UNCHANGED <<logs, owner>>
    /\ UNCHANGED <<fields, wire, args, nSet, ret, self, other>>

Next ==
    \/ \E v \in UrlValues : url(v) /\ UNCHANGED plain
    \/ \E v \in PathValues : path(v) /\ UNCHANGED plain
    \/ \E v \in ParamValues : params(v) /\ UNCHANGED plain
    \/ \E v \in HeaderValues : header(v) /\ UNCHANGED plain
    \/ \E v \in BodyValues : body(v) /\ UNCHANGED plain
    \/ \E s \in ExpectedValues : getRequest(s) /\ UNCHANGED plain
    \/ \E s \in ExpectedValues : postRequest(s) /\ UNCHANGED plain
    \/ \E s \in ExpectedValues : putRequest(s) /\ UNCHANGED plain
    \/ \E s \in ExpectedValues : deleteRequest(s) /\ UNCHANGED plain
    \/ \E c \in 1..Len(calls), r \in Responses :
           HttpRespond(c, r.status, r.text) /\ UNCHANGED plain
    \/ \E c \in 1..Len(calls) : HttpFail(c) /\ UNCHANGED plain
    \/ \E c \in 1..Len(calls) : JsonSettle(c) /\ UNCHANGED plain

Spec == Init /\ [][Next]_vars

-----------------------------------------------------------------------------
(* The terminal operations against a request context that settles every     *)
(* promise it hands out: each HTTP call is answered or fails, each body     *)
(* read settles.                                                            *)

\* the request context settles the HTTP call of operation c
HttpSettles(c) ==
    /\ c \in 1..Len(calls)
    /\ \/ \E r \in Responses : HttpRespond(c, r.status, r.text)
       \/ HttpFail(c)
    /\ UNCHANGED plain

\* the request context settles the body read of operation c
JsonSettles(c) ==
    /\ c \in 1..Len(calls)
    /\ JsonSettle(c)
    /\ UNCHANGED plain

NextLive ==
    \/ \E v \in UrlValues : url(v) /\ UNCHANGED plain
    \/ \E s \in ExpectedValues : getRequest(s) /\ UNCHANGED plain
    \/ \E s \in ExpectedValues : postRequest(s) /\ UNCHANGED plain
    \/ \E s \in ExpectedValues : putRequest(s) /\ UNCHANGED plain
    \/ \E s \in ExpectedValues : deleteRequest(s) /\ UNCHANGED plain
    \/ \E c \in 1..MaxCalls : HttpSettles(c)
    \/ \E c \in 1..MaxCalls : JsonSettles(c)

SpecLive ==
    /\ Init
    /\ [][NextLive]_vars
    /\ \A c \in 1..MaxCalls : WF_vars(HttpSettles(c)) /\ WF_vars(JsonSettles(c))

-----------------------------------------------------------------------------
(* Two builder instances, each constructed with a logger of its own.  The   *)
(* variables baseUrl .. nSet hold the state of the instance the next call   *)
(* is made on; the state of the instance not called is kept in other.       *)

\* the state of the instance the variables are the state of
This ==
    [baseUrl |-> baseUrl, apiPath |-> apiPath, queryParams |-> queryParams,
     apiHeaders |-> apiHeaders, apiBody |-> apiBody, logs |-> logs,
     owner |-> owner, calls |-> calls, wire |-> wire, args |-> args,
     nSet |-> nSet]

\* a field declared static: one value for all instances
InstanceField_static(own, shared) == shared

\* a field of the class is an instance field: each instance has its own
\* value (own), whatever another instance holds in the field (shared)
InstanceField(own, shared) == own

\* the calling code turns to the other instance
Switch ==
    /\ self' = (IF self = 1 THEN 2 ELSE 1)
    /\ other' = This
    /\ baseUrl' = InstanceField(other.baseUrl, baseUrl)
    /\ apiPath' = InstanceField(other.apiPath, apiPath)
    /\ queryParams' = InstanceField(other.queryParams, queryParams)
    /\ apiHeaders' = InstanceField(other.apiHeaders, apiHeaders)
    /\ apiBody' = InstanceField(other.apiBody, apiBody)
    /\ logs' = other.logs
    /\ owner' = other.owner
    /\ calls' = other.calls
    /\ wire' = other.wire
    /\ args' = other.args
    /\ nSet' = other.nSet
    /\ UNCHANGED ret

\* setter calls and terminal operations on either instance, in any
\* interleaving; the bounds limit the calls of the two instances together
NextTwo ==
    \/ /\ nSet + other.nSet < MaxSetterCalls
       /\ UNCHANGED plain
       /\ \/ \E v \in PathValues : path(v)
          \/ \E v \in HeaderValues : header(v)
          \/ \E v \in BodyValues : body(v)
    \/ /\ Len(calls) + Len(other.calls) < MaxCalls
       /\ UNCHANGED plain
       /\ \E s \in ExpectedValues : postRequest(s)
    \/ \E c \in 1..Len(calls), r \in Responses :
           HttpRespond(c, r.status, r.text) /\ UNCHANGED plain
    \/ \E c \in 1..Len(calls) : HttpFail(c) /\ UNCHANGED plain
    \/ \E c \in 1..Len(calls) : JsonSettle(c) /\ UNCHANGED plain
    \/ Switch /\ UNCHANGED plain

SpecTwo == Init /\ [][NextTwo]_vars

-----------------------------------------------------------------------------
(* getUrl on a wider range of fields: one terminal operation on a builder   *)
(* whose fields earlier setter calls have set.                              *)

InitUrl ==
    /\ baseUrl \in UrlInputs
    /\ apiPath \in PathInputs
    /\ queryParams \in ParamInputs
    /\ apiHeaders = EmptyObject
    /\ apiBody = EmptyObject
    /\ logs = <<>>
    /\ owner = <<>>
    /\ calls = <<>>
    /\ wire = <<>>
    /\ args = [last |-> [InitialFields EXCEPT !.url = baseUrl,
                                               !.path = apiPath,
                                               !.params = queryParams],
               prev |-> InitialFields]
    /\ nSet = 0
    /\ ret = 0
    /\ self = 1
    /\ other = InitialInstance
    /\ plain = InitialPlain

NextUrl ==
    \/ /\ calls = <<>>
       /\ UNCHANGED plain
       /\ \/ \E s \in ExpectedValues : getRequest(s)
          \/ \E s \in ExpectedValues : postRequest(s)
          \/ \E s \in ExpectedValues : putRequest(s)
          \/ \E s \in ExpectedValues : deleteRequest(s)
    \/ \E c \in 1..Len(calls), r \in Responses :
           HttpRespond(c, r.status, r.text) /\ UNCHANGED plain
    \/ \E c \in 1..Len(calls) : HttpFail(c) /\ UNCHANGED plain
    \/ \E c \in 1..Len(calls) : JsonSettle(c) /\ UNCHANGED plain

SpecUrl == InitUrl /\ [][NextUrl]_vars

-----------------------------------------------------------------------------
(* The variant of RequestHandler without logger, run beside the logging     *)
(* variant: every setter call and terminal operation is made on both, and   *)
(* the request context answers both alike.                                  *)

\* the error of expect(response.status()).toEqual(stautsCode)
ExpectError == [name |-> "ExpectError", message |-> "expect(received).toEqual(expected)"]

\* a setter of the plain variant: this.<field> = <argument>
PlainSet(p, field, v) == [p EXCEPT ![field] = v]

\* the locals of a terminal operation of the plain variant
PlainCall(method, expected, pc, error) ==
    [method |-> method, expected |-> expected, pc |-> pc, status |-> 0,
     text |-> "", result |-> Undefined, error |-> error]

\* a terminal operation of the plain variant up to its first await; data is
\* sent by postRequest and putRequest
PlainInvoke(p, method, expected) ==
    IF getUrlThrows(p.baseUrl, p.apiPath)
    THEN [p EXCEPT !.calls = Append(@, PlainCall(method, expected, "threw",
                                                 InvalidUrlError))]
    ELSE [p EXCEPT
            !.wire = Append(@, HttpCall(Len(p.calls) + 1, method,
                                        getUrl(p.baseUrl, p.apiPath,
                                               p.queryParams),
                                        p.apiHeaders,
                                        IF method \in {"POST", "PUT"}
                                        THEN p.apiBody ELSE Undefined)),
            !.calls = Append(@, PlainCall(method, expected, "awaitHttp",
                                          NoError))]

\* an operation without the status assertion
PlainRespond_noExpect(p, c, status, text) ==
    [p EXCEPT !.calls[c].status = status, !.calls[c].text = text,
              !.calls[c].pc = IF p.calls[c].method = "DELETE"
                              THEN "returned" ELSE "awaitJson"]

\* the HTTP call of operation c of the plain variant is answered:
\* expect(response.status()).toEqual(stautsCode), then response.json()
\* unless the operation is deleteRequest
PlainRespond(p, c, status, text) ==
    IF status # p.calls[c].expected
    THEN [p EXCEPT !.calls[c].status = status, !.calls[c].text = text,
                   !.calls[c].pc = "threw", !.calls[c].error = ExpectError]
    ELSE [p EXCEPT !.calls[c].status = status, !.calls[c].text = text,
                   !.calls[c].pc = IF p.calls[c].method = "DELETE"
                                   THEN "returned" ELSE "awaitJson"]

\* the HTTP call of operation c of the plain variant fails
PlainFail(p, c) ==
    [p EXCEPT !.calls[c].pc = "threw", !.calls[c].error = TransportError]

\* response.json() of operation c of the plain variant settles, if the
\* operation called it
PlainJson(p, c) ==
    IF p.calls[c].pc # "awaitJson" THEN p
    ELSE IF JsonParses(p.calls[c].text)
    THEN [p EXCEPT !.calls[c].pc = "returned",
                   !.calls[c].result = ParseJson(p.calls[c].text)]
    ELSE [p EXCEPT !.calls[c].pc = "threw", !.calls[c].error = JsonParseError]

NextPair ==
    \/ \E v \in UrlValues : url(v) /\ plain' = PlainSet(plain, "baseUrl", v)
    \/ \E v \in PathValues : path(v) /\ plain' = PlainSet(plain, "apiPath", v)
    \/ \E v \in ParamValues :
           params(v) /\ plain' = PlainSet(plain, "queryParams", v)
    \/ \E v \in HeaderValues :
           header(v) /\ plain' = PlainSet(plain, "apiHeaders", v)
    \/ \E v \in BodyValues : body(v) /\ plain' = PlainSet(plain, "apiBody", v)
    \/ \E s \in ExpectedValues :
           getRequest(s) /\ plain' = PlainInvoke(plain, "GET", s)
    \/ \E s \in ExpectedValues :
           postRequest(s) /\ plain' = PlainInvoke(plain, "POST", s)
    \/ \E s \in ExpectedValues :
           putRequest(s) /\ plain' = PlainInvoke(plain, "PUT", s)
    \/ \E s \in ExpectedValues :
           deleteRequest(s) /\ plain' = PlainInvoke(plain, "DELETE", s)
    \/ \E c \in 1..Len(calls), r \in Responses :
           /\ HttpRespond(c, r.status, r.text)
           /\ plain' = PlainRespond(plain, c, r.status, r.text)
    \/ \E c \in 1..Len(calls) : HttpFail(c) /\ plain' = PlainFail(plain, c)
    \/ \E c \in 1..Len(calls) : JsonSettle(c) /\ plain' = PlainJson(plain, c)

SpecPair == Init /\ [][NextPair]_vars

-----------------------------------------------------------------------------
(* Properties *)

Finished(c) == calls[c].pc \in {"returned", "threw"}

\* a response was received for operation c
Responded(c) == calls[c].status # 0

IsStatusError(e) == e.name = "Error"

\* the HTTP calls operation c issued
WireOf(c) == SelectSeq(wire, LAMBDA h : h.call = c)

\* a string up to and without its first "?"
BeforeQuery(str) == SubSeq(str, 1, FirstIn(str, 1, {"?"}) - 1)

\* C1: a finished terminal operation that received a response failed with
\* the status-mismatch error exactly when the received status differs from
\* the expected status.
C1_StatusErrorIffStatusDiffers ==
    \A c \in 1..Len(calls) :
        (Finished(c) /\ Responded(c)) =>
            (IsStatusError(calls[c].error)
                <=> calls[c].status # calls[c].expected)

\* C2: at the step where a terminal operation raises the status-mismatch
\* error, the message carries the expected status, the actual status and one
\* rendered section per entry then in the logger, in order, each with the
\* entry's label and data; the last two sections are the failing call's own
\* Request and Response.
C2_Raises(c) ==
    /\ c \in 1..Len(calls)
    /\ calls[c].pc # "threw"
    /\ calls'[c].pc = "threw"
    /\ IsStatusError(calls'[c].error)

C2_SectionOf(sec, e) ==
    IF e.type = "Request"
    THEN /\ sec.label = "===Request Details==="
         /\ sec.block.method = e.data.method
         /\ sec.block.url = e.data.url
         /\ sec.block.headers = e.data.headers
         /\ IF e.data.body = Undefined
            THEN DOMAIN sec.block = {"method", "url", "headers"}
            ELSE sec.block.body = e.data.body
    ELSE /\ sec.label = "===Response Details==="
         /\ sec.block.status = e.data.status
         /\ IF e.data.body = Undefined
            THEN DOMAIN sec.block = {"status"}
            ELSE sec.block.body = e.data.body

C2_MessageCarriesStatusesAndAllEntries ==
    [][\A c \in 1..Len(calls') :
         C2_Raises(c) =>
            LET m == calls'[c].error.message
                n == Len(logs')
            IN  /\ m.expected = calls[c].expected
                /\ m.actual = calls'[c].status
                /\ m.expected # m.actual
                /\ Len(m.activity) = n
                /\ \A i \in 1..n : C2_SectionOf(m.activity[i], logs'[i])
                /\ n >= 2
                /\ logs'[n].type = "Response"
                /\ logs'[n].data.status = m.actual
                /\ \E i \in 1..(n - 1) :
                      /\ logs'[i].type = "Request"
                      /\ logs'[i].data.method = calls[c].method
                      /\ logs'[i].data.url = calls[c].url]_vars

\* an operation failed on the status after an earlier one had succeeded, and
\* its message shows the four entries of the two calls
C2_Witness ==
    /\ Len(calls) = 2
    /\ calls[1].pc = "returned"
    /\ calls[1].method = "POST"
    /\ calls[2].pc = "threw"
    /\ IsStatusError(calls[2].error)
    /\ Len(calls[2].error.message.activity) = 4
    /\ calls[2].error.message.activity[1].block.method = calls[1].method
    /\ calls[2].error.message.activity[2].label = "===Response Details==="
    /\ calls[2].error.message.activity[2].block.status = calls[1].status
    /\ calls[2].error.message.activity[2].block.body = calls[1].result

\* C3: a GET, POST or PUT that returned hands its caller the parsed body of
\* the response to its own HTTP call.
C3_ReturnsOwnParsedBody ==
    \A c \in 1..Len(calls) :
        (calls[c].pc = "returned" /\ calls[c].method # "DELETE") =>
            /\ JsonParses(calls[c].text)
            /\ calls[c].status = calls[c].expected
            /\ calls[c].result = ParseJson(calls[c].text)

\* two operations were in flight together, the one invoked second was
\* answered and returned first, and the two returned different bodies
C3_Witness ==
    /\ Len(calls) = 2
    /\ calls[1].pc = "returned"
    /\ calls[2].pc = "returned"
    /\ calls[1].method = "GET"
    /\ calls[2].method = "PUT"
    /\ calls[1].result = Obj(<< <<"id", "2">> >>)
    /\ calls[2].result = Obj(<< <<"id", "1">> >>)
    /\ logs[3].type = "Response"
    /\ logs[3].data.body = calls[2].result
    /\ logs[4].data.body = calls[1].result

\* C4: deleteRequest(204) answered with status 204 and an empty body has
\* returned, without an error and without a value.
C4_Delete204Empty(c) ==
    /\ calls[c].method = "DELETE"
    /\ calls[c].expected = 204
    /\ calls[c].status = 204
    /\ calls[c].text = ""

C4_Delete204ReturnsNothing ==
    \A c \in 1..Len(calls) :
        C4_Delete204Empty(c) =>
            /\ calls[c].pc = "returned"
            /\ calls[c].error = NoError
            /\ calls[c].result = Undefined

C4_Witness ==
    \E c \in 1..Len(calls) : C4_Delete204Empty(c) /\ calls[c].pc = "returned"

\* C5: a deleteRequest(s) answered with status s and a JSON body hands its
\* caller the parsed body.
C5_DeleteReturnsParsedBody ==
    \A c \in 1..Len(calls) :
        (/\ calls[c].method = "DELETE"
         /\ calls[c].pc = "returned"
         /\ JsonParses(calls[c].text)) =>
            calls[c].result = ParseJson(calls[c].text)

\* C6: every field holds the argument of the most recent call of its setter
\* (its initial value before any call), and every HTTP call carries the URL
\* built from the last url(), path() and params() arguments, exactly the
\* headers of the last header() call and, for POST and PUT, the body of the
\* last body() call, as they were when its operation was invoked.
C6_LastWriteWins ==
    /\ baseUrl = args.last.url
    /\ apiPath = args.last.path
    /\ queryParams = args.last.params
    /\ apiHeaders = args.last.header
    /\ apiBody = args.last.body
    /\ \A i \in 1..Len(wire) :
          LET set == calls[wire[i].call].set
          IN  /\ wire[i].headers = set.header
              /\ wire[i].url = getUrl(set.url, set.path, set.params)
              /\ wire[i].method \in {"POST", "PUT"} => wire[i].data = set.body

\* header({A: "1"}) then header({B: "2"}) then an operation whose HTTP call
\* carries {B: "2"} alone
C6_Witness ==
    /\ args.prev.header = Obj(<< <<"A", "1">> >>)
    /\ args.last.header = Obj(<< <<"B", "2">> >>)
    /\ \E i \in 1..Len(wire) :
          /\ wire[i].headers.entries = << <<"B", "2">> >>
          /\ calls[wire[i].call].set.header = args.last.header

\* C7: no step of a terminal operation (its invocation, the answer or the
\* failure of its HTTP call, the settling of response.json()) changes
\* baseUrl, apiPath, queryParams, apiHeaders or apiBody.
C7_TerminalStepsKeepFields ==
    [][calls' # calls => UNCHANGED fields]_vars

\* a GET with params({limit: 10}) finished, then path() was called and a
\* DELETE was issued, whose URL still carries limit=10
C7_Witness ==
    /\ Len(wire) = 2
    /\ wire[1].method = "GET"
    /\ wire[2].method = "DELETE"
    /\ Finished(1)
    /\ calls[1].set.path # calls[2].set.path
    /\ calls[1].set.params = calls[2].set.params
    /\ queryParams = Obj(<< <<"limit", "10">> >>)
    /\ wire[1].url = <<"https://", "x.test", "/", "api", "?", "limit", "=", "10">>
    /\ wire[2].url = <<"https://", "x.test", "/", "api", "/", "articles",
                       "?", "limit", "=", "10">>

\* C8 as claimed: every invoked terminal operation has issued exactly one
\* HTTP call, with its own verb.
C8_ExactlyOneHttpCall ==
    \A c \in 1..Len(calls) :
        /\ Len(WireOf(c)) = 1
        /\ WireOf(c)[1].method = calls[c].method

\* C8 as amended: an operation whose URL construction failed has issued no
\* HTTP call; every other invoked operation has issued exactly one, with its
\* own verb, also after a transport failure, a parse failure or a status
\* mismatch.
C8_OneHttpCallUnlessUrlInvalid ==
    \A c \in 1..Len(calls) :
        IF calls[c].error = InvalidUrlError
        THEN /\ WireOf(c) = <<>>
             /\ ~ValidURL(EffectiveBaseUrl(calls[c].set.url, defaultBaseUrl)
                          \o calls[c].set.path)
        ELSE /\ Len(WireOf(c)) = 1
             /\ WireOf(c)[1].method = calls[c].method

\* one operation failed on the transport, another on the status, and each
\* issued one HTTP call
C8_Witness ==
    /\ Len(calls) = 2
    /\ calls[1].pc = "threw"
    /\ calls[1].error = TransportError
    /\ calls[2].pc = "threw"
    /\ IsStatusError(calls[2].error)
    /\ Len(wire) = 2

\* C9: the URL of every HTTP call starts with the scheme and host of the
\* override when url() last set a non-empty one, and of the constructor's
\* base URL otherwise, and is the URL built from that base; an operation
\* invoked under an override that makes no absolute URL fails without an
\* HTTP call (the default does not step in).
C9_Base(c) ==
    IF calls[c].set.url # EmptyString THEN calls[c].set.url ELSE defaultBaseUrl

C9_OverrideElseDefault ==
    \A c \in 1..Len(calls) :
        LET set == calls[c].set
            u   == UrlTemplate(C9_Base(c), set.path)
        IN  IF ValidURL(u)
            THEN /\ Len(WireOf(c)) = 1
                 /\ SubSeq(WireOf(c)[1].url, 1, 2) = SubSeq(C9_Base(c), 1, 2)
                 /\ WireOf(c)[1].url =
                        URLToString(AppendEntries(ParseURL(u), set.params.entries))
            ELSE /\ WireOf(c) = <<>>
                 /\ calls[c].error = InvalidUrlError

\* one HTTP call went to the override's host
C9_Witness ==
    \E c \in 1..Len(calls) :
        /\ calls[c].set.url = <<"https://", "y.test", "/", "v2">>
        /\ calls[c].set.path = <<"/", "articles">>
        /\ Len(WireOf(c)) = 1
        /\ BeforeQuery(WireOf(c)[1].url) =
               <<"https://", "y.test", "/", "v2", "/", "articles">>

\* C10 as claimed: the URL of every HTTP call, before its query string, is
\* the concatenation of the effective base URL and the path.
C10_ExactConcatenation ==
    \A c \in 1..Len(calls) :
        WireOf(c) # <<>> =>
            BeforeQuery(WireOf(c)[1].url) =
                BeforeQuery(C9_Base(c) \o calls[c].set.path)

\* the concatenation has a path, and no "." or ".." segment in it
C10_NormalForm(str) ==
    LET h == FirstIn(str, 2, {"/", "?"})
    IN  /\ h <= Len(str)
        /\ str[h] = "/"
        /\ \A i \in h..Len(str) : str[i] \notin {".", ".."}

\* C10 as amended: the URL of every HTTP call, before its query string, is
\* the URL parser's serialisation of the concatenation of the effective base
\* URL and the path (an empty path becomes "/", "." and ".." segments are
\* resolved); it is the concatenation itself, with nothing inserted between
\* base and path and no slash added or removed, whenever the concatenation
\* has a path without "." and ".." segments.
C10_SerialisedConcatenation ==
    \A c \in 1..Len(calls) :
        WireOf(c) # <<>> =>
            LET concat == BeforeQuery(C9_Base(c) \o calls[c].set.path)
                sent   == BeforeQuery(WireOf(c)[1].url)
            IN  /\ sent = URLBeforeQuery(ParseURL(concat))
                /\ C10_NormalForm(concat) => sent = concat

\* "https://x.test/api" and "articles" went out as
\* "https://x.test/apiarticles"
C10_Witness ==
    \E c \in 1..Len(calls) :
        /\ Len(WireOf(c)) = 1
        /\ calls[c].set.url = EmptyString
        /\ calls[c].set.path = <<"articles">>
        /\ C10_NormalForm(defaultBaseUrl \o calls[c].set.path)
        /\ BeforeQuery(WireOf(c)[1].url) =
               <<"https://", "x.test", "/", "api", "articles">>

-----------------------------------------------------------------------------
\* the query string of a URL: what follows its first "?"
QueryOf(str) == SubSeq(str, FirstIn(str, 1, {"?"}) + 1, Len(str))

\* the positions of a query string where the item name=value stands, as a
\* whole item between "&" separators, in its form-urlencoded writing
C11_Occurrences(q, pair) ==
    {i \in 1..(Len(q) - 2) :
        /\ q[i] = FormEncode(pair[1])
        /\ q[i + 1] = "="
        /\ q[i + 2] = FormEncode(pair[2])
        /\ (i = 1 \/ q[i - 1] = "&")
        /\ (i + 2 = Len(q) \/ q[i + 3] = "&")}

\* C11: when the path carries no query string of its own, the query string
\* of the URL an operation sends holds every key/value pair of the params()
\* mapping in effect exactly once (form-urlencoded) and holds nothing else:
\* it is made of as many name=value items as the mapping has pairs, and it
\* is empty when the mapping is empty.
C11_QueryIsExactlyTheMapping ==
    \A i \in 1..Len(wire) :
        LET c == wire[i].call
            m == calls[c].set.params.entries
            q == QueryOf(wire[i].url)
        IN  "?" \notin {calls[c].set.path[k] : k \in 1..Len(calls[c].set.path)}
            => /\ \A j \in 1..Len(m) : Cardinality(C11_Occurrences(q, m[j])) = 1
               /\ Len(q) = (IF m = <<>> THEN 0 ELSE 4 * Len(m) - 1)
               /\ ("?" \in {wire[i].url[k] : k \in 1..Len(wire[i].url)})
                      <=> (m # <<>>)

\* a two-pair mapping sent as the query limit=10&offset=0 on a path without
\* a query of its own
C11_Witness ==
    /\ Len(wire) = 1
    /\ calls[1].set.params = Obj(<< <<"limit", "10">>, <<"offset", "0">> >>)
    /\ calls[1].set.path = <<"/", "articles">>
    /\ QueryOf(wire[1].url) = <<"limit", "=", "10", "&", "offset", "=", "0">>

-----------------------------------------------------------------------------
\* C12: a non-empty url(v) stays in effect for every terminal operation
\* invoked while v is the latest url() argument, the first and every later
\* one: each of them builds its URL from v, never from the default base
\* (it sends its one HTTP call to v's origin, or fails on new URL when v
\* with the path is no absolute URL).
C12_OverrideStaysInEffect ==
    \A c \in 1..Len(calls) :
        LET v == calls[c].set.url
            u == v \o calls[c].set.path
        IN  v # EmptyString
            => IF ValidURL(u)
               THEN /\ Len(WireOf(c)) = 1
                    /\ calls[c].url = WireOf(c)[1].url
                    /\ SubSeq(calls[c].url, 1, 2) = SubSeq(v, 1, 2)
                    /\ BeforeQuery(calls[c].url) = URLBeforeQuery(ParseURL(u))
               ELSE /\ WireOf(c) = <<>>
                    /\ calls[c].error = InvalidUrlError

\* url() was called once, with https://y.test, and two operations followed,
\* the second after the first had its response: both went to y.test
C12_Witness ==
    /\ Len(calls) = 2
    /\ Len(wire) = 2
    /\ Len(logs) >= 3
    /\ logs[1].type = "Request"
    /\ logs[2].type = "Response"
    /\ args.prev.url = EmptyString
    /\ \A c \in 1..2 :
          /\ calls[c].set.url = <<"https://", "y.test">>
          /\ SubSeq(WireOf(c)[1].url, 1, 2) = <<"https://", "y.test">>

-----------------------------------------------------------------------------
\* C13: an operation whose HTTP call fails fails with the transport's error,
\* and an operation whose response body is no JSON fails with the parser's
\* error: the very error, not wrapped and without log text; an error with
\* the builder's own message is raised only for a received status that
\* differs from the expected one, and an operation fails with nothing but
\* one of these or the URL constructor's error.
C13_FailuresPropagateUnwrapped ==
    \A c \in 1..Len(calls) :
        /\ (calls[c].pc = "threw" /\ ~Responded(c) /\ WireOf(c) # <<>>)
              => calls[c].error = TransportError
        /\ (Finished(c) /\ Responded(c) /\ calls[c].method # "DELETE"
                /\ calls[c].text = "")
              => (calls[c].pc = "threw" /\ calls[c].error = JsonParseError)
        /\ IsStatusError(calls[c].error)
              => (Responded(c) /\ calls[c].status # calls[c].expected)
        /\ calls[c].pc = "threw"
              => \/ IsStatusError(calls[c].error)
                 \/ calls[c].error.name \in {"TypeError", "TransportError",
                                             "SyntaxError"}

\* one operation failed with the transport's error and another with the
\* parser's error
C13_Witness ==
    /\ Len(calls) = 2
    /\ calls[1].pc = "threw"
    /\ calls[1].error = TransportError
    /\ Len(WireOf(1)) = 1
    /\ calls[2].pc = "threw"
    /\ calls[2].error = JsonParseError
    /\ calls[2].status = 204

-----------------------------------------------------------------------------
\* C14: the log is append-only: every step, the failing ones included
\* (transport error, parse error, status mismatch), leaves the log as it
\* was or extends it at its end; no entry is changed, moved or removed.
C14_LogIsAppendOnly ==
    [][/\ Len(logs') >= Len(logs)
       /\ SubSeq(logs', 1, Len(logs)) = logs]_vars

\* the first operation failed by transport error and the second by status
\* mismatch: the Request entry of the first and both entries of the second
\* are in the log
C14_Witness ==
    /\ Len(calls) = 2
    /\ calls[1].pc = "threw"
    /\ calls[1].error = TransportError
    /\ calls[2].pc = "threw"
    /\ IsStatusError(calls[2].error)
    /\ Len(logs) = 3
    /\ owner = <<1, 2, 2>>
    /\ logs[1].type = "Request"
    /\ logs[1].data.url = calls[1].url

-----------------------------------------------------------------------------
\* the entries of the log, each with the operation that appended it
C15_Tagged == [i \in 1..Len(logs) |-> [entry |-> logs[i], call |-> owner[i]]]

\* the entries operation c appends: its Request when it is dispatched, its
\* Response when it has received one and, if it reads the body, parsed it
C15_EntriesOf(c) ==
    (IF WireOf(c) # <<>>
     THEN <<[entry |-> [type |-> "Request",
                        data |-> [method |-> calls[c].method,
                                  url |-> calls[c].url,
                                  headers |-> calls[c].set.header,
                                  body |-> IF calls[c].method = "GET"
                                           THEN Undefined
                                           ELSE calls[c].set.body]],
             call |-> c]>>
     ELSE <<>>)
    \o
    (IF Finished(c) /\ Responded(c)
        /\ (calls[c].method = "DELETE" \/ calls[c].text # "")
     THEN <<[entry |-> [type |-> "Response",
                        data |-> [status |-> calls[c].status,
                                  body |-> IF calls[c].method = "DELETE"
                                           THEN Undefined
                                           ELSE ParseJson(calls[c].text)]],
             call |-> c]>>
     ELSE <<>>)

RECURSIVE C15_InCallOrder(_)
C15_InCallOrder(c) ==
    IF c > Len(calls) THEN <<>> ELSE C15_EntriesOf(c) \o C15_InCallOrder(c + 1)

\* C15: when no operation is invoked while an earlier one is still pending
\* (each is awaited to completion before the next is issued), the log is
\* the entries of the first call, then those of the second, and so on: all
\* entries an operation appends precede all entries of the next operation.
C15_AwaitedCallsLogInCallOrder ==
    (\A c \in 1..Len(calls) : ~calls[c].overlaps)
        => /\ C15_Tagged = C15_InCallOrder(1)
           /\ \A i, j \in 1..Len(owner) : i < j => owner[i] <= owner[j]

\* two operations, the second issued after the first completed, with two
\* entries each
C15_Witness ==
    /\ Len(calls) = 2
    /\ ~calls[2].overlaps
    /\ calls[1].pc = "returned"
    /\ calls[2].pc = "returned"
    /\ owner = <<1, 1, 2, 2>>
    /\ logs[3].type = "Request"

-----------------------------------------------------------------------------
\* operation d was invoked while an earlier operation was pending, c is an
\* earlier operation that issued its HTTP call, and a setter call between
\* the two invocations changed the named part
C16_SetBetween(c, d, part) ==
    /\ c < d
    /\ calls[d].overlaps
    /\ WireOf(c) # <<>>
    /\ calls[c].set[part] # calls[d].set[part]

\* C16 as claimed: when a second operation is issued without awaiting the
\* first and a setter is called between the two, the last value wins: the
\* HTTP request of the first call carries the value set after it was invoked.
C16_FirstRequestCarriesLaterValue ==
    \A c, d \in 1..Len(calls) :
        /\ C16_SetBetween(c, d, "header")
              => WireOf(c)[1].headers = calls[d].set.header
        /\ (C16_SetBetween(c, d, "body") /\ calls[c].method \in {"POST", "PUT"})
              => WireOf(c)[1].data = calls[d].set.body
        /\ (C16_SetBetween(c, d, "path") \/ C16_SetBetween(c, d, "params"))
              => WireOf(c)[1].url = getUrl(calls[c].set.url, calls[d].set.path,
                                           calls[d].set.params)

\* C16: an operation reads path, params, headers and body when it is
\* invoked, before its first await: also when a second operation is issued
\* without awaiting the first and setters are called between the two, the
\* HTTP request of the first call carries the values in effect at its own
\* invocation, not a value set afterwards.
C16_RequestCarriesValuesAtInvocation ==
    \A c, d \in 1..Len(calls) :
        (c < d /\ calls[d].overlaps /\ WireOf(c) # <<>>)
           => /\ Len(WireOf(c)) = 1
              /\ WireOf(c)[1].headers = calls[c].set.header
              /\ WireOf(c)[1].data = (IF calls[c].method \in {"POST", "PUT"}
                                      THEN calls[c].set.body ELSE Undefined)
              /\ WireOf(c)[1].url = getUrl(calls[c].set.url, calls[c].set.path,
                                           calls[c].set.params)

\* getRequest, header({B: "2"}), getRequest with the first still pending:
\* the two HTTP calls carry different headers, each its own
C16_Witness ==
    /\ Len(calls) = 2
    /\ calls[1].pc = "awaitHttp"
    /\ C16_SetBetween(1, 2, "header")
    /\ calls[2].set.header = Obj(<< <<"B", "2">> >>)
    /\ Len(wire) = 2
    /\ wire[1].headers = calls[1].set.header
    /\ wire[2].headers = calls[2].set.header

-----------------------------------------------------------------------------
\* C19: getRecentLogs renders the whole log: one section per stored entry,
\* the i-th section for the i-th entry (so each entry once and in insertion
\* order), labelled as a Request or a Response section according to the
\* entry's kind and carrying the entry's data; however long the log, no
\* entry is left out.
C19_RendersEveryEntryOnceInOrder ==
    LET r == getRecentLogs(logs)
    IN  /\ Len(r) = Len(logs)
        /\ \A i \in 1..Len(logs) :
              /\ r[i].label = (IF logs[i].type = "Request"
                               THEN "===Request Details==="
                               ELSE "===Response Details===")
              /\ C2_SectionOf(r[i], logs[i])

\* a log of four entries, rendered in four sections when the second
\* operation, after a GET, failed its status validation
C19_Witness ==
    /\ Len(logs) = 4
    /\ Len(calls) = 2
    /\ calls[1].method = "GET"
    /\ calls[2].pc = "threw"
    /\ IsStatusError(calls[2].error)
    /\ calls[2].error.message.activity = getRecentLogs(logs)
    /\ [i \in 1..4 |-> getRecentLogs(logs)[i].label] =
          <<"===Request Details===", "===Response Details===",
            "===Request Details===", "===Response Details===">>

-----------------------------------------------------------------------------
\* the positions in the log of the entries of one kind that operation c
\* appended
C20_Entries(c, type) ==
    {i \in 1..Len(logs) : owner[i] = c /\ logs[i].type = type}

\* C20: the steps of one operation come in this order.  While its HTTP call
\* is out, its Request entry is in the log.  Its Response entry is there
\* only once the response is received, and after its Request entry.  When
\* the status validation fails, the Response entry is already logged: it is
\* the last section of the activity the error carries.  The operation has
\* returned, and has a value, only with its Response entry logged and the
\* received status equal to the expected one.
C20_StepsInOrder ==
    \A c \in 1..Len(calls) :
        LET req  == C20_Entries(c, "Request")
            resp == C20_Entries(c, "Response")
        IN  /\ WireOf(c) # <<>> => Cardinality(req) = 1
            /\ WireOf(c) = <<>> => req = {}
            /\ resp # {} => /\ Responded(c)
                             /\ Cardinality(resp) = 1
                             /\ \A i \in req, j \in resp : i < j
            /\ IsStatusError(calls[c].error)
                  => /\ Cardinality(resp) = 1
                     /\ \A j \in resp :
                           /\ Len(calls[c].error.message.activity) = j
                           /\ C2_SectionOf(calls[c].error.message.activity[j],
                                           logs[j])
            /\ calls[c].pc = "returned"
                  => /\ Cardinality(resp) = 1
                     /\ calls[c].status = calls[c].expected
            /\ calls[c].pc # "returned" => calls[c].result = Undefined

\* two overlapping operations: the second returned between the Request
\* and the Response entry of the first, whose validation then failed on a
\* log of four entries
C20_Witness ==
    /\ Len(calls) = 2
    /\ owner = <<1, 2, 2, 1>>
    /\ calls[2].pc = "returned"
    /\ calls[1].pc = "threw"
    /\ IsStatusError(calls[1].error)
    /\ Len(calls[1].error.message.activity) = 4

-----------------------------------------------------------------------------
\* the state of builder instance i
Instance(i) == IF self = i THEN This ELSE other

\* what an instance dispatched, returned and logged is what its own setter
\* calls and its own operations, with the answers they received, make it
C17_OwnHistoryOnly(s) ==
    /\ s.baseUrl = s.args.last.url
    /\ s.apiPath = s.args.last.path
    /\ s.queryParams = s.args.last.params
    /\ s.apiHeaders = s.args.last.header
    /\ s.apiBody = s.args.last.body
    /\ \A k \in 1..Len(s.wire) :
          /\ s.wire[k].call \in 1..Len(s.calls)
          /\ LET call == s.calls[s.wire[k].call]
             IN  /\ s.wire[k].method = call.method
                 /\ s.wire[k].headers = call.set.header
                 /\ s.wire[k].data = call.set.body
                 /\ s.wire[k].url = getUrl(call.set.url, call.set.path,
                                           call.set.params)
    /\ Len(s.owner) = Len(s.logs)
    /\ Cardinality({k \in 1..Len(s.logs) : s.logs[k].type = "Request"})
          = Len(s.wire)
    /\ \A k \in 1..Len(s.logs) :
          /\ s.owner[k] \in 1..Len(s.calls)
          /\ LET call == s.calls[s.owner[k]]
             IN  IF s.logs[k].type = "Request"
                 THEN /\ s.logs[k].data.url = call.url
                      /\ s.logs[k].data.headers = call.set.header
                      /\ s.logs[k].data.body = call.set.body
                 ELSE /\ s.logs[k].data.status = call.status
                      /\ s.logs[k].data.body = ParseJson(call.text)
    /\ \A c \in 1..Len(s.calls) :
          s.calls[c].pc = "returned"
             => s.calls[c].result = ParseJson(s.calls[c].text)

\* C17: two builder instances with a logger each share no state: under
\* every interleaving of setter calls and terminal operations on the two,
\* the field values, the HTTP calls dispatched, the values returned and the
\* log of each instance are those its own calls produce, as if the other
\* instance did not exist.
C17_InstancesShareNoState ==
    \A i \in {1, 2} : C17_OwnHistoryOnly(Instance(i))

\* each instance had its own header set and made one operation: the two
\* HTTP calls carry different headers and the two logs hold two entries each
C17_Witness ==
    /\ Len(Instance(1).wire) = 1
    /\ Len(Instance(2).wire) = 1
    /\ Instance(1).wire[1].headers = Obj(<< <<"A", "1">> >>)
    /\ Instance(2).wire[1].headers = Obj(<< <<"B", "2">> >>)
    /\ Instance(1).calls[1].pc = "returned"
    /\ Instance(2).calls[1].pc = "returned"
    /\ Instance(1).calls[1].result # Instance(2).calls[1].result
    /\ Len(Instance(1).logs) = 2
    /\ Len(Instance(2).logs) = 2

-----------------------------------------------------------------------------
\* C18: what a setter returns is the builder instance it was called on: the
\* object a chained call a.path(p).params(q).getRequest(s) goes on with is
\* a itself, with a's state, so the chain acts on the state the separate
\* calls a.path(p); a.params(q); a.getRequest(s) act on.
C18_SettersReturnTheInstance ==
    IF nSet = 0 THEN ret = 0
    ELSE /\ ret = self
         /\ Instance(ret) = This

\* path(p) and params(q) were called, each returned the instance, and the
\* operation that followed sent p and q
C18_Witness ==
    /\ nSet = 2
    /\ ret = self
    /\ args.last.path = <<"/", "articles">>
    /\ args.last.params = Obj(<< <<"limit", "10">> >>)
    /\ Len(wire) = 1
    /\ wire[1].method = "GET"
    /\ wire[1].url = <<"https://", "x.test", "/", "api", "/", "articles",
                        "?", "limit", "=", "10">>

-----------------------------------------------------------------------------
\* C21: getRequest ignores the configured body: also when body() was called
\* before, the Request entry a GET appends has no body and its HTTP call is
\* issued with the headers only (no data).
C21_GetIgnoresBody ==
    \A c \in 1..Len(calls) :
        (calls[c].method = "GET" /\ WireOf(c) # <<>>)
           => /\ WireOf(c)[1].method = "GET"
              /\ WireOf(c)[1].data = Undefined
              /\ WireOf(c)[1].headers = calls[c].set.header
              /\ \A i \in C20_Entries(c, "Request") :
                    /\ logs[i].data.method = "GET"
                    /\ logs[i].data.body = Undefined
                    /\ DOMAIN Stringify(logs[i]) = {"method", "url", "headers"}

\* body({title: "t"}) was called and a GET followed: its entry and its HTTP
\* call are without body
C21_Witness ==
    /\ Len(calls) = 1
    /\ calls[1].method = "GET"
    /\ calls[1].set.body = Obj(<< <<"title", "t">> >>)
    /\ apiBody = Obj(<< <<"title", "t">> >>)
    /\ Len(wire) = 1
    /\ wire[1].data = Undefined
    /\ logs[1].data.body = Undefined

\* C22: deleteRequest issues its DELETE call with the configured body when
\* body() has set one, as postRequest and putRequest do.
C22_DeleteSendsBody ==
    \A c \in 1..Len(calls) :
        (calls[c].method \in {"POST", "PUT", "DELETE"} /\ WireOf(c) # <<>>
            /\ calls[c].set.body # EmptyObject)
           => WireOf(c)[1].data = calls[c].set.body

-----------------------------------------------------------------------------
\* C25: the empty string is no override: an operation invoked while "" is
\* the latest url() argument, also after a non-empty override, builds its
\* URL from the constructor's default base URL; and an operation uses the
\* default only then: with a non-empty latest argument it never does.
C25_EmptyOverrideIsDefault ==
    \A c \in 1..Len(calls) :
        LET set == calls[c].set
            u   == defaultBaseUrl \o set.path
        IN  IF set.url = EmptyString
            THEN IF ValidURL(u)
                 THEN /\ Len(WireOf(c)) = 1
                      /\ SubSeq(WireOf(c)[1].url, 1, 2)
                            = SubSeq(defaultBaseUrl, 1, 2)
                      /\ WireOf(c)[1].url =
                            URLToString(AppendEntries(ParseURL(u),
                                                      set.params.entries))
                 ELSE WireOf(c) = <<>>
            ELSE \A i \in 1..Len(WireOf(c)) :
                    SubSeq(WireOf(c)[i].url, 1, 2) # SubSeq(defaultBaseUrl, 1, 2)

\* url("https://y.test") then url("") then an operation: it went to the
\* default base URL
C25_Witness ==
    /\ args.prev.url = <<"https://", "y.test">>
    /\ args.last.url = EmptyString
    /\ Len(calls) = 1
    /\ calls[1].set.url = EmptyString
    /\ Len(wire) = 1
    /\ wire[1].url = <<"https://", "x.test", "/", "api">>

-----------------------------------------------------------------------------
\* the Response entries of the log are never more than its Request entries
C26_ResponsesWithinRequests ==
    Cardinality({i \in 1..Len(logs) : logs[i].type = "Response"})
        <= Cardinality({i \in 1..Len(logs) : logs[i].type = "Request"})

\* C26 as claimed: the Response entries never outnumber the Request
\* entries, and every operation that has returned or failed has appended
\* exactly one Request entry and at most one Response entry.
C26_OneRequestEntryPerOperation ==
    /\ C26_ResponsesWithinRequests
    /\ \A c \in 1..Len(calls) :
          Finished(c)
             => /\ Cardinality(C20_Entries(c, "Request")) = 1
                /\ Cardinality(C20_Entries(c, "Response")) <= 1

\* C26: the Response entries never outnumber the Request entries, also
\* after transport and parse failures and with overlapping operations;
\* an operation that has returned or failed has appended at most one
\* Response entry and exactly one Request entry, unless it failed building
\* its URL: then it has appended no entry at all.
C26_OneRequestEntryUnlessUrlInvalid ==
    /\ C26_ResponsesWithinRequests
    /\ \A c \in 1..Len(calls) :
          /\ Cardinality(C20_Entries(c, "Response")) <= 1
          /\ Cardinality(C20_Entries(c, "Response"))
                <= Cardinality(C20_Entries(c, "Request"))
          /\ Finished(c)
                => IF calls[c].error = InvalidUrlError
                   THEN C20_Entries(c, "Request") = {}
                   ELSE Cardinality(C20_Entries(c, "Request")) = 1

\* one operation failed building its URL and left no entry; the other
\* failed by transport error and left its Request entry alone
C26_Witness ==
    /\ Len(calls) = 2
    /\ calls[1].error = InvalidUrlError
    /\ calls[2].pc = "threw"
    /\ calls[2].error = TransportError
    /\ owner = <<2>>
    /\ logs[1].type = "Request"

-----------------------------------------------------------------------------
-----------------------------------------------------------------------------
\* C28: the Request entry of an operation records what its HTTP call
\* carries: the same method, URL and headers, and the body that is sent; it
\* records a body exactly when one is sent.
C28_RequestEntryMatchesHttpCall ==
    \A c \in 1..Len(calls) :
        \A i \in C20_Entries(c, "Request") :
            /\ Len(WireOf(c)) = 1
            /\ logs[i].data.method = WireOf(c)[1].method
            /\ logs[i].data.url = WireOf(c)[1].url
            /\ logs[i].data.headers = WireOf(c)[1].headers
            /\ logs[i].data.body = WireOf(c)[1].data

-----------------------------------------------------------------------------
\* the five configuration fields under the names of their setters
C24_Fields ==
    [url |-> baseUrl, path |-> apiPath, params |-> queryParams,
     header |-> apiHeaders, body |-> apiBody]

-----------------------------------------------------------------------------
\* C23: when the request context settles every HTTP call and every body
\* read, every terminal operation that was invoked completes: it returns
\* or it raises; nothing in the builder keeps it pending.
C23_EveryOperationCompletes ==
    \A c \in 1..MaxCalls :
        (Len(calls) >= c) ~> (Len(calls) >= c /\ Finished(c))

\* two operations were pending at once and both completed, one by
\* returning and one by raising the transport's error
C23_Witness ==
    /\ Len(calls) = 2
    /\ calls[2].overlaps
    /\ calls[1].pc = "returned"
    /\ calls[2].pc = "threw"
    /\ calls[2].error = TransportError

-----------------------------------------------------------------------------
\* C29: apart from logging, the variant with logger and the variant
\* without behave alike on the same setter calls, terminal operations and
\* answers: they dispatch the same HTTP calls (verb, URL, headers, body);
\* an operation that has returned in one has returned in the other, with
\* the same value; an operation that has failed in one has failed in the
\* other or, where the plain variant fails on the status before the body is
\* read, fails in the other when the body read settles.
C29_PlainAndLoggingAgree ==
    /\ plain.wire = wire
    /\ Len(plain.calls) = Len(calls)
    /\ \A c \in 1..Len(calls) :
          /\ plain.calls[c].method = calls[c].method
          /\ Finished(c) => plain.calls[c].pc = calls[c].pc
          /\ plain.calls[c].pc = "returned"
                => /\ calls[c].pc = "returned"
                   /\ calls[c].result = plain.calls[c].result
          /\ plain.calls[c].pc = "threw"
                => calls[c].pc \in {"threw", "awaitJson"}
          /\ (plain.calls[c].pc = "threw" /\ calls[c].pc = "awaitJson")
                => /\ plain.calls[c].error = ExpectError
                   /\ calls[c].status # calls[c].expected

\* both variants sent the same two HTTP calls; the first operation returned
\* the same value in both; the second, answered 204 without body where 200
\* was expected, failed in both: in the plain variant on the status, in the
\* logging variant on the body
C29_Witness ==
    /\ Len(calls) = 2
    /\ Len(wire) = 2
    /\ plain.wire = wire
    /\ calls[1].pc = "returned"
    /\ calls[1].method = "POST"
    /\ plain.calls[1].result = calls[1].result
    /\ calls[1].result # Undefined
    /\ calls[2].pc = "threw"
    /\ calls[2].error = JsonParseError
    /\ plain.calls[2].pc = "threw"
    /\ plain.calls[2].error = ExpectError

=============================================================================
